---------------------------- MODULE Spec2Model ----------------------------
(***************************************************************************)
(* A model of the periodic task scheduler of src/schd.go.                  *)
(*                                                                         *)
(* Two scheduler instances are modelled: "s", made by the package function *)
(* New(), and "ss", the instance that the method s.New() returns.  A       *)
(* scheduler holds a registry (map period -> slice of tasks), a tick       *)
(* counter, a load accumulator, a ticker, a done channel and a wait group. *)
(* tick() is modelled step by step (before hook, lock, one step per bucket *)
(* picked by the map range, one step per task Run, after hook, statistics) *)
(* because other goroutines act between those steps.                       *)
(*                                                                         *)
(* Indices are 0-based in the Go code and 1-based in TLA+ sequences: slot  *)
(* i of a Go slice is element i+1 of the sequence that models it.          *)
(***************************************************************************)
EXTENDS Integers, Sequences, FiniteSets, TLC

\* ------------------------------------------------------------- bounds
\* Largest period a caller registers tasks with.
MaxPeriod == 2
\* Largest number of entries (the value of Tasks()) the callers let one
\* scheduler hold.
MaxTasks == 3
\* Largest number of tasks passed to one call of Add.
MaxAdd == 2
\* Number of ticks a scheduler processes before the model stops it.
MaxTicks == 4
\* Passes of each scheduler where a scheduler and its copy run side by side.
CopyTicks == 1
\* Calls of TaskTracer.Run between two Resets, and their longest duration.
MaxRuns == 4
MaxDur == 3

\* ------------------------------------------------------------- inputs
\* The scheduler made by New() and the one made by s.New().
Sched == {"s", "ss"}
\* Goroutines of the host program that call the scheduler's methods.
Client == {"c1", "c2"}
\* Task values.  A and B behave like testTask (Run always returns nil);
\* Run of F returns nil or an error.
Task == {"A", "B", "F"}
Fallible == {"F"}
\* Periods that have a bucket, and the periods a caller may pass to Add
\* (0 and -1 stand for the rejected ones).
Periods == 1..MaxPeriod
AddPeriods == (0 - 1)..MaxPeriod
\* The variadic argument of Add, with tasks taken from T.
AddArgs(T) == UNION {[1..n -> T] : n \in 0..MaxAdd}
\* Tick intervals passed to Start, and the wall time a pass takes.
Durations == {2}
BusyTimes == {2}
\* The durations TaskTracer.Run measures.
TraceDurs == 0..MaxDur

VARIABLES
  alive,     \* alive[sc]: the instance has been created
  tasks,     \* s.tasks: registry, period -> sequence of tasks
  ticks,     \* s.ticks
  load,      \* s.load
  duration,  \* s.duration (0: not set)
  ticker,    \* s.ticker: "nil", "on" (running), "stopped"
  tickC,     \* number of ticks buffered in s.ticker.C (capacity 1)
  wg,        \* s.wg counter
  lockt,     \* s.locktasks: "free" or "tick" (held by a dispatch pass)
  gpc,       \* position of the code that runs tick(): the goroutine of
             \* Start, or a direct caller of tick() as in the tests
  todo,      \* tick(): keys the map range has not produced yet
  cp,        \* tick(): p of the range
  v,         \* tick(): v of the range, the slice header read from the map
  ci,        \* tick(): i of the inner loop (0-based)
  cpc,       \* caller position: "idle", "send" (in s.done <- ), "wait"
             \* (in s.wg.Wait()), "panicStart", "panicStop" (its last
             \* call panicked)
  ctarget,   \* scheduler of the caller's last Stop
  sawpass,   \* history: the client's last Stop was called while a dispatch
             \* pass of its scheduler was in progress
  runlog,    \* history: the Runs of the pass in progress, in order
  snap,      \* history: the registry when the pass took the lock
  passfail,  \* history: some Run of the pass in progress returned an error
  hist,      \* history: per entry of a bucket of period p, for each of
             \* the last passes completed since it sits at its index, at
             \* most p+1 of them, whether the pass ran it
  scen,      \* history: the runs of A and B while every pass so far started
             \* from the registry of the scenario {1: [A], 2: [B]}
  failed,    \* history: per task, "no", "now" (failed in the pass in
             \* progress), "before" (failed in an earlier pass, not re-added)
  lastcall,  \* history: the last Add or Remove call and the registry before
  tr,        \* the fields count, d, d2, max, min of one TaskTracer
  durs,      \* history: the durations that the tracer recorded since
             \* Trace() or the last Reset()
  obs,       \* per caller, the values of s.ticks and s.load that its last
             \* call of Load() read
  hooks,     \* history: per scheduler, the number of calls of the before
             \* hook (nb) and of the after hook (na), and the value of
             \* Ticks() at the last call of each (b, a)
  gaps       \* history, kept where a specification switches it on: per
             \* entry of a bucket, the tick of its last run (last), the
             \* ticks between its last two runs (gap, 0 before the second
             \* run), the entries that Remove took from before it since
             \* its last run (cut) and between its last two runs (of)

regVars == <<alive, tasks>>
statVars == <<ticks, load, duration>>
lifeVars == <<ticker, tickC, wg>>
passVars == <<lockt, gpc, todo, cp, v, ci>>
clientVars == <<cpc, ctarget>>
histVars == <<runlog, snap, passfail, hist, scen, failed, lastcall, sawpass>>
traceVars == <<tr, durs>>
readVars == <<obs, hooks, gaps>>
vars == <<regVars, statVars, lifeVars, passVars, clientVars, histVars,
          traceVars, readVars>>

\* ------------------------------------------------------------ helpers

\* Removal that moves the last element into the hole.
RemoveAtSwap(seq, j) ==
  [x \in 1..(Len(seq) - 1) |-> IF x = j THEN seq[Len(seq)] ELSE seq[x]]
\* seq without its element at index j (1-based).
RemoveAt(seq, j) == SubSeq(seq, 1, j - 1) \o SubSeq(seq, j + 1, Len(seq))

\* Index of the first element of seq equal to t, 0 when there is none:
\* the scan `for i, tt := range v { if tt == t {...; break} }`.
FirstIdx(seq, t) ==
  IF \E j \in 1..Len(seq) : seq[j] = t
  THEN CHOOSE j \in 1..Len(seq) :
         seq[j] = t /\ \A x \in 1..(j - 1) : seq[x] # t
  ELSE 0

\* The scan keeping the last match instead of breaking at the first one.
RemoveLast(seq, t) ==
  IF \E j \in 1..Len(seq) : seq[j] = t
  THEN RemoveAt(seq, CHOOSE j \in 1..Len(seq) :
                       seq[j] = t /\ \A x \in (j + 1)..Len(seq) : seq[x] # t)
  ELSE seq
\* append(v[:i], v[i+1:]...) for the first match of t, else v unchanged.
RemoveFirst(seq, t) ==
  IF FirstIdx(seq, t) = 0 THEN seq ELSE RemoveAt(seq, FirstIdx(seq, t))

\* The registry after remove(t): every bucket loses its first match.
remove(reg, t) == [p \in DOMAIN reg |-> RemoveFirst(reg[p], t)]

\* The registry after add(period, t...).
add(reg, period, ts) == [reg EXCEPT ![period] = reg[period] \o ts]

\* What append(v[:j], v[j+1:]...) does to the backing array seen through an
\* older slice header B of the same array, when the slice stored in the map
\* has length m: slots j..m-1 take the value of the next slot, slot m and
\* the slots behind it keep their value.
ShiftView(B, j, m) ==
  [x \in 1..Len(B) |-> IF x >= j /\ x < m THEN B[x + 1] ELSE B[x]]

RECURSIVE SumLen(_, _)
SumLen(reg, keys) ==
  IF keys = {} THEN 0
  ELSE LET k == CHOOSE x \in keys : TRUE
       IN Len(reg[k]) + SumLen(reg, keys \ {k})

\* Tasks(): nb += len(v) over the map.
Tasks(sc) == SumLen(tasks[sc], DOMAIN tasks[sc])

\* Ticks(), Elapsed().
Ticks(sc) == ticks[sc]
Elapsed(sc) == duration[sc] * ticks[sc]

\* New(): the fields of a fresh scheduler.
EmptyReg == [p \in AddPeriods |-> <<>>]
NoCall == [op |-> "none"]

\* ------------------------------------------------------------ history
\* History of a bucket after its first match of t is removed: the entry's
\* record goes, the records behind it start anew at their new index.
HistRemove(h, seq, t) ==
  LET j == FirstIdx(seq, t) IN
  IF j = 0 THEN h
  ELSE [x \in 1..(Len(h) - 1) |-> IF x < j THEN h[x] ELSE <<>>]

\* The pass in progress has run slot x - 1 of bucket p.
RanNow(sc, p, x) ==
  \E k \in 1..Len(runlog[sc]) : runlog[sc][k].p = p /\ runlog[sc][k].i = x - 1

\* History of an entry of a bucket of period p when a pass ends: a pass in
\* which a task failed is not counted, and starts every record anew.
HistPassEnd(w, p, ran, fail) ==
  IF fail THEN <<>>
  ELSE IF Len(w) < p + 1 THEN Append(w, ran)
  ELSE Append(Tail(w), ran)

ScenarioReg == [p \in AddPeriods |->
                  IF p = 1 THEN <<"A">> ELSE IF p = 2 THEN <<"B">> ELSE <<>>]
ScenOn == [on |-> TRUE, a |-> 0, b |-> {}]
ScenOff == [on |-> FALSE, a |-> 0, b |-> {}]

\* ------------------------------------------------------- initial state
\* math.MaxInt64, scaled down to the largest integer of the model checker.
MaxInt64 == 2147483647
\* Trace(t): the statistics of a new TaskTracer.
Trace == [count |-> 0, d |-> 0, d2 |-> 0, max |-> 0, min |-> MaxInt64]
\* No call of Load() made yet.
NoObs == [ticks |-> 0, load |-> 0]
\* No hook called yet.
NoHook == [nb |-> 0, na |-> 0, b |-> 0, a |-> 0]

\* The record of an entry that has not run yet.
NoRun == [last |-> 0 - 1, gap |-> 0, cut |-> 0, of |-> 0]
\* The runs of the entries are not recorded.
GapsOff == [on |-> FALSE, b |-> EmptyReg]
\* The runs of the entries of registry reg are recorded from now on.
GapsOn(reg) == [on |-> TRUE,
                b |-> [p \in AddPeriods |-> [x \in 1..Len(reg[p]) |-> NoRun]]]
\* Add(period, ts): the new entries go behind the others.
GapsAdd(g, period, ts) ==
  IF ~g.on THEN g
  ELSE [g EXCEPT !.b[period] = @ \o [x \in 1..Len(ts) |-> NoRun]]
\* Remove(t): in each bucket the record of the first match goes as the
\* entry goes from the slice; the entries behind it have lost an entry
\* before them.
GapsRemove(g, reg, t) ==
  IF ~g.on THEN g
  ELSE [g EXCEPT !.b =
          [p \in AddPeriods |->
             LET j == FirstIdx(reg[p], t) IN
             IF j = 0 THEN g.b[p]
             ELSE RemoveAt([x \in 1..Len(g.b[p]) |->
                              IF x > j THEN [g.b[p][x] EXCEPT !.cut = @ + 1]
                              ELSE g.b[p][x]], j)]]
\* The pass of tick now runs slot i of bucket p.
GapsRun(g, p, i, now) ==
  IF ~g.on \/ i + 1 > Len(g.b[p]) THEN g
  ELSE [g EXCEPT !.b[p][i + 1] =
          [last |-> now,
           gap |-> IF @.last < 0 THEN 0 ELSE now - @.last,
           cut |-> 0,
           of |-> @.cut]]
\* A Run failed: the records of the registry that is left start anew.
GapsFail(g, reg) == IF ~g.on THEN g ELSE GapsOn(reg)

\* New() followed by the calls of Add that build registry reg: no ticker,
\* counters at 0.  Only "s" exists.  g says which runs are recorded.
InitRecording(reg, g) ==
  /\ alive = [sc \in Sched |-> sc = "s"]
  /\ tasks = [sc \in Sched |-> IF sc = "s" THEN reg ELSE EmptyReg]
  /\ ticks = [sc \in Sched |-> 0]
  /\ load = [sc \in Sched |-> 0]
  /\ duration = [sc \in Sched |-> 0]
  /\ ticker = [sc \in Sched |-> "nil"]
  /\ tickC = [sc \in Sched |-> 0]
  /\ wg = [sc \in Sched |-> 0]
  /\ lockt = [sc \in Sched |-> "free"]
  /\ gpc = [sc \in Sched |-> "none"]
  /\ todo = [sc \in Sched |-> {}]
  /\ cp = [sc \in Sched |-> 0]
  /\ v = [sc \in Sched |-> <<>>]
  /\ ci = [sc \in Sched |-> 0]
  /\ cpc = [c \in Client |-> "idle"]
  /\ ctarget = [c \in Client |-> "s"]
  /\ runlog = [sc \in Sched |-> <<>>]
  /\ snap = [sc \in Sched |-> EmptyReg]
  /\ passfail = [sc \in Sched |-> FALSE]
  /\ hist = [sc \in Sched |->
               IF sc = "s" THEN [p \in AddPeriods |->
                                   [x \in 1..Len(reg[p]) |-> <<>>]]
               ELSE EmptyReg]
  /\ scen = [sc \in Sched |-> ScenOn]
  /\ failed = [sc \in Sched |-> [t \in Task |-> "no"]]
  /\ lastcall = NoCall
  /\ sawpass = [c \in Client |-> FALSE]
  /\ tr = Trace
  /\ durs = <<>>
  /\ obs = [c \in Client |-> NoObs]
  /\ hooks = [sc \in Sched |-> NoHook]
  /\ gaps = [sc \in Sched |-> IF sc = "s" THEN g ELSE GapsOff]

InitWith(reg) == InitRecording(reg, GapsOff)

\* New(): an empty registry.
Init == InitWith(EmptyReg)

\* ------------------------------------------------------------ registry
\* The guard of Add: `if period <= 0 { return }`.
RejectedNegative(period) == period < 0
Rejected(period) == period <= 0

\* s.locktasks.Lock() succeeds.
LockIgnored(sc) == TRUE
Unlocked(sc) == lockt[sc] = "free"

\* Add(period, t...).  A rejected period returns before the lock is taken.
\* (lastcall and the position of the caller are set by the specification
\* that uses the action.)
Add(sc, period, ts) ==
  /\ alive[sc]
  /\ IF Rejected(period)
     THEN UNCHANGED <<tasks, hist, failed, gaps>>
     ELSE /\ Unlocked(sc)
          /\ Tasks(sc) + Len(ts) <= MaxTasks
          /\ tasks' = [tasks EXCEPT ![sc] = add(@, period, ts)]
          /\ hist' = [hist EXCEPT ![sc][period] =
                        @ \o [x \in 1..Len(ts) |-> <<>>]]
          /\ failed' = [failed EXCEPT ![sc] =
                          [t \in Task |->
                             IF \E x \in 1..Len(ts) : ts[x] = t
                             THEN "no" ELSE @[t]]]
          /\ gaps' = [gaps EXCEPT ![sc] = GapsAdd(@, period, ts)]
  /\ UNCHANGED <<alive, statVars, lifeVars, passVars,
                 runlog, snap, passfail, scen, sawpass>>
  /\ UNCHANGED <<traceVars, obs, hooks>>

\* Remove(t): remove(t) under the task lock.
Remove(sc, t) ==
  /\ alive[sc]
  /\ Unlocked(sc)
  /\ tasks' = [tasks EXCEPT ![sc] = remove(@, t)]
  /\ hist' = [hist EXCEPT ![sc] =
                [p \in DOMAIN @ |->
                   HistRemove(@[p], tasks[sc][p], t)]]
  /\ gaps' = [gaps EXCEPT ![sc] = GapsRemove(@, tasks[sc], t)]
  /\ UNCHANGED <<alive, statVars, lifeVars, passVars,
                 runlog, snap, passfail, scen, failed, sawpass>>
  /\ UNCHANGED <<traceVars, obs, hooks>>

\* ---------------------------------------------------------------- tick
\* k := s.ticks % p
PhaseAfterIncrement(t, p) == (t + 1) % p
Phase(t, p) == t % p
\* i += p
StepOne(i, p) == i + 1
StepTwice(i, p) == i + 2 * p
Step(i, p) == i + p

\* What Run() of task t may return: TRUE stands for an error.
RunResults(t) == IF t \in Fallible THEN {FALSE, TRUE} ELSE {FALSE}
\* TaskTracer.Run returns the error of the task it wraps.
TaskTracerRun(err) == err
\* Tasks registered through Trace().
Traced == {"F"}
RunOf(t, err) == IF t \in Traced THEN TaskTracerRun(err) ELSE err

\* A direct call of tick(), as TestTicksVisualManual makes on a scheduler
\* that was never started.
TickCall(sc) ==
  /\ alive[sc]
  /\ gpc[sc] = "none"
  /\ ticker[sc] = "nil"
  /\ ticks[sc] < MaxTicks
  /\ gpc' = [gpc EXCEPT ![sc] = "before"]
  /\ UNCHANGED <<regVars, statVars, lifeVars, lockt, todo, cp, v, ci,
                 clientVars, histVars>>
  /\ UNCHANGED <<traceVars, readVars>>

\* start := time.Now(); s.beforeTick(s).  The hook of New() does nothing;
\* hooks keeps what a hook that calls Ticks() would read.
tickBefore(sc) ==
  /\ gpc[sc] = "before"
  /\ gpc' = [gpc EXCEPT ![sc] = "lock"]
  /\ hooks' = [hooks EXCEPT ![sc].nb = @ + 1, ![sc].b = Ticks(sc)]
  /\ UNCHANGED <<regVars, statVars, lifeVars, lockt, todo, cp, v, ci,
                 clientVars, histVars>>
  /\ UNCHANGED <<traceVars, obs, gaps>>

\* s.locktasks.Lock(); the map range starts.  Keys <= 0 are never in the
\* map, and a key whose slice is empty runs nothing.
tickLock(sc) ==
  /\ gpc[sc] = "lock"
  /\ lockt[sc] = "free"
  /\ lockt' = [lockt EXCEPT ![sc] = "tick"]
  /\ gpc' = [gpc EXCEPT ![sc] = "range"]
  /\ todo' = [todo EXCEPT ![sc] = {p \in Periods : tasks[sc][p] # <<>>}]
  /\ snap' = [snap EXCEPT ![sc] = tasks[sc]]
  /\ runlog' = [runlog EXCEPT ![sc] = <<>>]
  /\ passfail' = [passfail EXCEPT ![sc] = FALSE]
  /\ scen' = [scen EXCEPT ![sc] =
                IF @.on /\ tasks[sc] = ScenarioReg THEN @ ELSE ScenOff]
  /\ lastcall' = NoCall
  /\ UNCHANGED <<regVars, statVars, lifeVars, cp, v, ci, clientVars,
                 hist, failed, sawpass>>
  /\ UNCHANGED <<traceVars, readVars>>

\* `for p, v := range s.tasks`: the range produces the next key, in an
\* order Go leaves unspecified, and reads its slice; `i := k; i < len(v)`.
\* When no key is left: s.locktasks.Unlock().
tickRange(sc) ==
  /\ gpc[sc] = "range"
  /\ IF todo[sc] = {}
     THEN /\ lockt' = [lockt EXCEPT ![sc] = "free"]
          /\ gpc' = [gpc EXCEPT ![sc] = "after"]
          /\ hist' = [hist EXCEPT ![sc] =
                        [p \in DOMAIN @ |->
                           [x \in 1..Len(@[p]) |->
                              HistPassEnd(@[p][x], p, RanNow(sc, p, x),
                                          passfail[sc])]]]
          /\ UNCHANGED <<todo, cp, v, ci>>
     ELSE \E p \in todo[sc] :
            /\ todo' = [todo EXCEPT ![sc] = @ \ {p}]
            /\ IF Phase(ticks[sc], p) < Len(tasks[sc][p])
               THEN /\ cp' = [cp EXCEPT ![sc] = p]
                    /\ v' = [v EXCEPT ![sc] = tasks[sc][p]]
                    /\ ci' = [ci EXCEPT ![sc] = Phase(ticks[sc], p)]
                    /\ gpc' = [gpc EXCEPT ![sc] = "loop"]
               ELSE UNCHANGED <<cp, v, ci, gpc>>
            /\ UNCHANGED <<lockt, hist>>
  /\ UNCHANGED <<regVars, statVars, lifeVars, clientVars,
                 runlog, snap, passfail, scen, failed, lastcall, sawpass>>
  /\ UNCHANGED <<traceVars, readVars>>

\* One turn of the inner loop: err := v[i].Run(); if err != nil
\* { s.remove(v[i]) }; i += p.  remove() rewrites the backing array that
\* v still points to.
tickRun(sc) ==
  LET p == cp[sc]
      i == ci[sc]
      t == v[sc][i + 1]
      m == Len(tasks[sc][p])
      j == FirstIdx(tasks[sc][p], t)
  IN
  /\ gpc[sc] = "loop"
  /\ \E res \in RunResults(t) :
       LET err == RunOf(t, res) IN
       /\ runlog' = [runlog EXCEPT ![sc] =
                       Append(@, [p |-> p, i |-> i, task |-> t,
                                  late |-> failed[sc][t] = "before",
                                  err |-> err])]
       /\ IF err
          THEN /\ tasks' = [tasks EXCEPT ![sc] = remove(@, t)]
               /\ v' = [v EXCEPT ![sc] =
                          IF Step(i, p) >= Len(@) THEN <<>>
                          ELSE IF j = 0 THEN @ ELSE ShiftView(@, j, m)]
               /\ hist' = [hist EXCEPT ![sc] =
                             [q \in DOMAIN @ |->
                                HistRemove(@[q], tasks[sc][q], t)]]
               /\ failed' = [failed EXCEPT ![sc][t] = "now"]
               /\ passfail' = [passfail EXCEPT ![sc] = TRUE]
               /\ gaps' = [gaps EXCEPT ![sc] = GapsFail(@, remove(tasks[sc], t))]
          ELSE /\ v' = [v EXCEPT ![sc] =
                          IF Step(i, p) >= Len(@) THEN <<>> ELSE @]
               /\ gaps' = [gaps EXCEPT ![sc] = GapsRun(@, p, i, ticks[sc])]
               /\ UNCHANGED <<tasks, hist, failed, passfail>>
  /\ scen' = [scen EXCEPT ![sc] =
                IF ~@.on THEN @
                ELSE [@ EXCEPT !.a = IF t = "A" THEN @ + 1 ELSE @,
                               !.b = IF t = "B" THEN @ \cup {ticks[sc]} ELSE @]]
  /\ IF Step(i, p) >= Len(v[sc])
     THEN /\ gpc' = [gpc EXCEPT ![sc] = "range"]
          /\ cp' = [cp EXCEPT ![sc] = 0]
          /\ ci' = [ci EXCEPT ![sc] = 0]
     ELSE /\ ci' = [ci EXCEPT ![sc] = Step(i, p)]
          /\ UNCHANGED <<gpc, cp>>
  /\ UNCHANGED <<alive, statVars, lifeVars, lockt, todo, clientVars,
                 snap, lastcall, sawpass>>
  /\ UNCHANGED <<traceVars, obs, hooks>>

\* s.afterTick(s).  The hook of New() does nothing.
tickAfter(sc) ==
  /\ gpc[sc] = "after"
  /\ gpc' = [gpc EXCEPT ![sc] = "stats"]
  /\ hooks' = [hooks EXCEPT ![sc].na = @ + 1, ![sc].a = Ticks(sc)]
  /\ UNCHANGED <<regVars, statVars, lifeVars, lockt, todo, cp, v, ci,
                 clientVars, histVars>>
  /\ UNCHANGED <<traceVars, obs, gaps>>

\* s.load = s.load + time.Since(start), written without the stats lock.
tickStats(sc) ==
  /\ gpc[sc] = "stats"
  /\ \E d \in BusyTimes : load' = [load EXCEPT ![sc] = @ + d]
  /\ gpc' = [gpc EXCEPT ![sc] = "count"]
  /\ UNCHANGED <<regVars, ticks, duration, lifeVars, lockt, todo, cp, v, ci,
                 clientVars, histVars>>
  /\ UNCHANGED <<traceVars, readVars>>

\* s.ticks += 1
TwoTicks(n) == n + 2
NextTick(n) == n + 1

\* s.ticks += 1, written without the stats lock; tick() returns, to the
\* loop of the goroutine or to the direct caller.
tickCount(sc) ==
  /\ gpc[sc] = "count"
  /\ ticks' = [ticks EXCEPT ![sc] = NextTick(@)]
  /\ gpc' = [gpc EXCEPT ![sc] = IF ticker[sc] = "nil" THEN "none" ELSE "recv"]
  /\ runlog' = [runlog EXCEPT ![sc] = <<>>]
  /\ snap' = [snap EXCEPT ![sc] = EmptyReg]
  /\ passfail' = [passfail EXCEPT ![sc] = FALSE]
  /\ failed' = [failed EXCEPT ![sc] =
                  [t \in Task |-> IF @[t] = "now" THEN "before" ELSE @[t]]]
  /\ UNCHANGED <<regVars, load, duration, lifeVars, lockt, todo, cp, v, ci,
                 clientVars, hist, scen, lastcall, sawpass>>
  /\ UNCHANGED <<traceVars, readVars>>

tick(sc) ==
  \/ tickBefore(sc)
  \/ tickLock(sc)
  \/ tickRange(sc)
  \/ tickRun(sc)
  \/ tickAfter(sc)
  \/ tickStats(sc)
  \/ tickCount(sc)

\* ----------------------------------------------------------- lifecycle
\* The positions of tick().
InPass == {"before", "lock", "range", "loop", "after", "stats", "count"}

\* The guard of Start: `if s.ticker != nil { panic(...) }`.
StartedOnlyIfRunning(sc) == ticker[sc] = "on"
AlreadyStarted(sc) == ticker[sc] # "nil"

\* Start(duration): panics on a scheduler that was started before; else
\* sets the duration, creates the ticker and launches the goroutine.  The
\* panic unwinds the caller, which makes no further call.
Start(c, sc, d) ==
  /\ cpc[c] = "idle"
  /\ alive[sc]
  /\ IF AlreadyStarted(sc)
     THEN /\ cpc' = [cpc EXCEPT ![c] = "panicStart"]
          /\ UNCHANGED <<duration, ticker, wg, gpc>>
     ELSE /\ gpc[sc] \in {"none", "exited"}
          /\ duration' = [duration EXCEPT ![sc] = d]
          /\ ticker' = [ticker EXCEPT ![sc] = "on"]
          /\ wg' = [wg EXCEPT ![sc] = @ + 1]
          /\ gpc' = [gpc EXCEPT ![sc] = "recv"]
          /\ UNCHANGED cpc
  /\ UNCHANGED <<regVars, ticks, load, tickC, lockt, todo, cp, v, ci,
                 ctarget, histVars>>
  /\ UNCHANGED <<traceVars, readVars>>

\* The guard of Stop: `if s.ticker == nil { panic(...) }`.
NeverStarted(sc) == ticker[sc] = "nil"

\* Stop(), up to `s.done <- struct{}{}`: panics on a scheduler that was
\* never started; else the caller blocks in the send on the unbuffered
\* channel until the goroutine receives.
StopCall(c, sc) ==
  /\ cpc[c] = "idle"
  /\ alive[sc]
  /\ IF NeverStarted(sc)
     THEN /\ cpc' = [cpc EXCEPT ![c] = "panicStop"]
          /\ UNCHANGED <<ctarget, sawpass>>
     ELSE /\ cpc' = [cpc EXCEPT ![c] = "send"]
          /\ ctarget' = [ctarget EXCEPT ![c] = sc]
          /\ sawpass' = [sawpass EXCEPT ![c] = gpc[sc] \in InPass]
  /\ UNCHANGED <<regVars, statVars, lifeVars, passVars,
                 runlog, snap, passfail, hist, scen, failed, lastcall>>
  /\ UNCHANGED <<traceVars, readVars>>

\* s.wg.Wait() returns.
WaitSkipped(sc) == TRUE
WaitBelowZero(sc) == wg[sc] < 0
WaitDone(sc) == wg[sc] = 0

\* Stop(), from s.wg.Wait(): once the goroutine is done, s.ticker.Stop()
\* and return.
StopWait(c) ==
  /\ cpc[c] = "wait"
  /\ WaitDone(ctarget[c])
  /\ ticker' = [ticker EXCEPT ![ctarget[c]] = "stopped"]
  /\ cpc' = [cpc EXCEPT ![c] = "idle"]
  /\ UNCHANGED <<regVars, statVars, tickC, wg, passVars, ctarget, histVars>>
  /\ UNCHANGED <<traceVars, readVars>>

\* The channel of a time.Ticker holds one tick; a tick sent to a full
\* channel is dropped and the ticker goes on.
TickerQueue(n) == n + 1
TickerSend(n) == IF n < 1 THEN n + 1 ELSE n

\* The ticker sends a tick on its channel of capacity 1; the tick is
\* dropped when the channel is full.
TickerFire(sc) ==
  /\ ticker[sc] = "on"
  /\ tickC' = [tickC EXCEPT ![sc] = TickerSend(@)]
  /\ UNCHANGED <<regVars, statVars, ticker, wg, passVars, clientVars,
                 histVars>>
  /\ UNCHANGED <<traceVars, readVars>>

\* `for range s.ticker.C`: the goroutine receives a tick.
loopRecv(sc) ==
  /\ gpc[sc] = "recv"
  /\ tickC[sc] = 1
  /\ tickC' = [tickC EXCEPT ![sc] = 0]
  /\ gpc' = [gpc EXCEPT ![sc] = "select"]
  /\ UNCHANGED <<regVars, statVars, ticker, wg, lockt, todo, cp, v, ci,
                 clientVars, histVars>>
  /\ UNCHANGED <<traceVars, readVars>>

\* `select { case <-s.done: return; default: s.tick() }`: the receive is
\* taken when a caller of Stop is blocked in the send, and lets it go on.
loopSelect(sc) ==
  /\ gpc[sc] = "select"
  /\ IF \E c \in Client : cpc[c] = "send" /\ ctarget[c] = sc
     THEN \E c \in Client :
            /\ cpc[c] = "send" /\ ctarget[c] = sc
            /\ cpc' = [cpc EXCEPT ![c] = "wait"]
            /\ gpc' = [gpc EXCEPT ![sc] = "return"]
     ELSE /\ ticks[sc] < MaxTicks
          /\ gpc' = [gpc EXCEPT ![sc] = "before"]
          /\ UNCHANGED cpc
  /\ UNCHANGED <<regVars, statVars, lifeVars, lockt, todo, cp, v, ci,
                 ctarget, histVars>>
  /\ UNCHANGED <<traceVars, readVars>>

\* The goroutine returns: `defer s.wg.Done()`.
loopReturn(sc) ==
  /\ gpc[sc] = "return"
  /\ wg' = [wg EXCEPT ![sc] = @ - 1]
  /\ gpc' = [gpc EXCEPT ![sc] = "exited"]
  /\ UNCHANGED <<regVars, statVars, ticker, tickC, lockt, todo, cp, v, ci,
                 clientVars, histVars>>
  /\ UNCHANGED <<traceVars, readVars>>

\* append([]Task{}, w...): a new slice with the entries of w.
CopyEmpty(w) == <<>>
CopySlice(w) == [x \in 1..Len(w) |-> w[x]]

\* The method s.New(): a scheduler made by New() that receives a copy of
\* every bucket, under the task lock of s.
SchedulerNew(c, sc, tgt) ==
  /\ cpc[c] = "idle"
  /\ alive[sc]
  /\ ~alive[tgt]
  /\ Unlocked(sc)
  /\ alive' = [alive EXCEPT ![tgt] = TRUE]
  /\ tasks' = [tasks EXCEPT ![tgt] =
                 [p \in AddPeriods |-> CopySlice(tasks[sc][p])]]
  /\ hist' = [hist EXCEPT ![tgt] =
                [p \in AddPeriods |->
                   [x \in 1..Len(CopySlice(tasks[sc][p])) |-> <<>>]]]
  /\ UNCHANGED <<statVars, lifeVars, passVars, clientVars,
                 runlog, snap, passfail, scen, failed, lastcall, sawpass>>
  /\ UNCHANGED <<traceVars, readVars>>

\* ------------------------------------- calls made from inside a pass
\* Tasks whose Run calls the scheduler that dispatches them, then returns:
\* A calls s.Add(0, A), B calls s.Tasks(), F calls s.Remove(F).
CallOf(t) ==
  IF t = "A" THEN [op |-> "Add", period |-> 0]
  ELSE IF t = "B" THEN [op |-> "Tasks"]
  ELSE [op |-> "Remove"]

\* The call reaches s.locktasks.Lock(): every call but an Add that
\* returns on its period.
Locks(call) == ~(call.op = "Add" /\ Rejected(call.period))

\* The call returns to the Run that made it.
CallReturns(sc, call) == Locks(call) => Unlocked(sc)

\* One turn of the inner loop when the Run of v[i] makes its call first:
\* the turn is taken once the call has returned.  (The calls that return
\* have changed nothing: a rejected Add.)
tickRunCalling(sc) ==
  /\ gpc[sc] = "loop"
  /\ CallReturns(sc, CallOf(v[sc][ci[sc] + 1]))
  /\ tickRun(sc)

\* The goroutine is inside a Run whose call waits for the task lock.
Blocked(sc) ==
  /\ gpc[sc] = "loop"
  /\ ~CallReturns(sc, CallOf(v[sc][ci[sc] + 1]))

\* A hook that calls Add, Remove, Tasks or New on its scheduler: the
\* goroutine is in s.beforeTick(s) or s.afterTick(s).
HookCall(sc, T) ==
  /\ gpc[sc] \in {"before", "after"}
  /\ \/ \E p \in AddPeriods, t \in T :
          Add(sc, p, <<t>>) /\ UNCHANGED <<lastcall, clientVars>>
     \/ \E t \in T : Remove(sc, t) /\ UNCHANGED <<lastcall, clientVars>>
     \/ Unlocked(sc) /\ UNCHANGED vars
     \/ \E tgt \in Sched : SchedulerNew("c2", sc, tgt)

\* --------------------------------------------------------------- stats
\* Load(), called by c: under s.lockstats.RLock(), which no writer ever
\* takes, it reads s.ticks and s.load; obs keeps what it has read.
Load(c, sc) ==
  /\ cpc[c] = "idle"
  /\ alive[sc]
  /\ obs' = [obs EXCEPT ![c] = [ticks |-> Ticks(sc), load |-> load[sc]]]
  /\ UNCHANGED <<regVars, statVars, lifeVars, passVars, clientVars,
                 histVars, traceVars, hooks, gaps>>

\* ----------------------------------------------------------- TaskTracer
\* The builtins max and min of Go, on two integers.
maxLast(a, b) == b
max(a, b) == IF a > b THEN a ELSE b
min(a, b) == IF a < b THEN a ELSE b

\* TaskTracer.Run(): the wrapped task runs for dur and returns err; the
\* statistics are updated whatever it returned.  durs keeps the durations
\* recorded since Trace() or the last Reset().
TaskTracerRunStats(dur, err) ==
  /\ Len(durs) < MaxRuns
  /\ tr' = [count |-> tr.count + 1,
            d |-> tr.d + dur,
            d2 |-> tr.d2 + dur * dur,
            max |-> max(tr.max, dur),
            min |-> min(tr.min, dur)]
  /\ durs' = Append(durs, dur)
  /\ UNCHANGED <<regVars, statVars, lifeVars, passVars, clientVars,
                 histVars, readVars>>

\* TaskTracer.Reset().
Reset ==
  /\ tr' = [count |-> 0, d |-> 0, d2 |-> 0, max |-> 0, min |-> MaxInt64]
  /\ durs' = <<>>
  /\ UNCHANGED <<regVars, statVars, lifeVars, passVars, clientVars,
                 histVars, readVars>>

\* The accessors of TaskTracer.  A float64 quotient converted to Duration
\* is truncated.
Count == tr.count
CumulativeDuration == tr.d
AverageDuration == IF tr.count = 0 THEN 0 ELSE tr.d \div tr.count
MaxDuration == tr.max
MinDuration == tr.min
\* The largest r with r * r <= n: the truncated math.Sqrt.
Sqrt(n) == CHOOSE r \in 0..n : r * r <= n /\ (r + 1) * (r + 1) > n
\* sqrt(d2/count - (d/count)^2), with the quotients kept exact.
StandardDeviationDuration ==
  IF tr.count <= 1 THEN 0
  ELSE Sqrt((tr.d2 * tr.count - tr.d * tr.d) \div (tr.count * tr.count))

\* ------------------------------------ the Scheduler type with Close
\* The earlier Scheduler: no locks, no load, a tick count `elapsed` (kept
\* in ticks) that tick() increments first, and a lifecycle Start, Stop,
\* Close.

\* Scheduler.Start(duration): resets the ticker when there is one, running
\* or stopped; else makes the done channel and the ticker and launches the
\* goroutine.
SchedulerStart(c, sc, d) ==
  /\ cpc[c] = "idle"
  /\ alive[sc]
  /\ duration' = [duration EXCEPT ![sc] = d]
  /\ ticker' = [ticker EXCEPT ![sc] = "on"]
  /\ IF ticker[sc] # "nil"
     THEN UNCHANGED <<tickC, wg, gpc>>
     ELSE /\ gpc[sc] \in {"none", "exited"}
          /\ tickC' = [tickC EXCEPT ![sc] = 0]
          /\ wg' = [wg EXCEPT ![sc] = @ + 1]
          /\ gpc' = [gpc EXCEPT ![sc] = "recv"]
  /\ UNCHANGED <<regVars, ticks, load, lockt, todo, cp, v, ci,
                 clientVars, histVars, traceVars, readVars>>

\* Scheduler.Stop(): s.ticker.Stop().  The ticker sends no more; a tick
\* already in its channel stays there; the goroutine is left in its loop.
\* Without a ticker the call dereferences nil and panics.
SchedulerStop(c, sc) ==
  /\ cpc[c] = "idle"
  /\ alive[sc]
  /\ IF ticker[sc] = "nil"
     THEN /\ cpc' = [cpc EXCEPT ![c] = "panicStop"]
          /\ UNCHANGED ticker
     ELSE /\ ticker' = [ticker EXCEPT ![sc] = "stopped"]
          /\ UNCHANGED cpc
  /\ UNCHANGED <<regVars, statVars, tickC, wg, passVars, ctarget,
                 histVars, traceVars, readVars>>

\* Scheduler.Close(), up to `s.done <- struct{}{}`: the caller blocks in
\* the send until the goroutine receives in its select.
SchedulerClose(c, sc) ==
  /\ cpc[c] = "idle"
  /\ alive[sc]
  /\ cpc' = [cpc EXCEPT ![c] = "send"]
  /\ ctarget' = [ctarget EXCEPT ![c] = sc]
  /\ UNCHANGED <<regVars, statVars, lifeVars, passVars, histVars,
                 traceVars, readVars>>

\* Scheduler.Close(), after the send: s.Stop().
CloseStop(c) ==
  /\ cpc[c] = "wait"
  /\ ticker' = [ticker EXCEPT ![ctarget[c]] = "stopped"]
  /\ cpc' = [cpc EXCEPT ![c] = "join"]
  /\ UNCHANGED <<regVars, statVars, tickC, wg, passVars, ctarget,
                 histVars, traceVars, readVars>>

\* Scheduler.Close(): s.wg.Wait(); s.ticker = nil; return.
CloseWait(c) ==
  /\ cpc[c] = "join"
  /\ WaitDone(ctarget[c])
  /\ ticker' = [ticker EXCEPT ![ctarget[c]] = "nil"]
  /\ cpc' = [cpc EXCEPT ![c] = "idle"]
  /\ UNCHANGED <<regVars, statVars, tickC, wg, passVars, ctarget,
                 histVars, traceVars, readVars>>

\* The default case of the select: the before hook, which does nothing
\* unless set, and the head of Scheduler.tick(): s.elapsed += 1, then the
\* range over the buckets.
SchedulerTick(sc) ==
  /\ gpc[sc] = "before"
  /\ ticks' = [ticks EXCEPT ![sc] = @ + 1]
  /\ gpc' = [gpc EXCEPT ![sc] = "range"]
  /\ todo' = [todo EXCEPT ![sc] = {p \in Periods : tasks[sc][p] # <<>>}]
  /\ snap' = [snap EXCEPT ![sc] = tasks[sc]]
  /\ runlog' = [runlog EXCEPT ![sc] = <<>>]
  /\ passfail' = [passfail EXCEPT ![sc] = FALSE]
  /\ scen' = [scen EXCEPT ![sc] = ScenOff]
  /\ UNCHANGED <<regVars, load, duration, lifeVars, lockt, cp, v, ci,
                 clientVars, hist, failed, lastcall, sawpass,
                 traceVars, readVars>>

\* Scheduler.tick() has returned: the after hook, which does nothing
\* unless set, and back to `for range s.ticker.C`.
SchedulerAfter(sc) ==
  /\ gpc[sc] = "after"
  /\ gpc' = [gpc EXCEPT ![sc] = "recv"]
  /\ runlog' = [runlog EXCEPT ![sc] = <<>>]
  /\ snap' = [snap EXCEPT ![sc] = EmptyReg]
  /\ passfail' = [passfail EXCEPT ![sc] = FALSE]
  /\ failed' = [failed EXCEPT ![sc] =
                  [t \in Task |-> IF @[t] = "now" THEN "before" ELSE @[t]]]
  /\ UNCHANGED <<regVars, statVars, lifeVars, lockt, todo, cp, v, ci,
                 clientVars, hist, scen, lastcall, sawpass,
                 traceVars, readVars>>

\* ------------------------------------------------- concurrent callers
\* A caller enters Add (with a period > 0), Remove or Tasks on sc and
\* waits in s.locktasks.Lock().
Request(c, sc) ==
  /\ cpc[c] = "idle"
  /\ alive[sc]
  /\ cpc' = [cpc EXCEPT ![c] = "lock"]
  /\ ctarget' = [ctarget EXCEPT ![c] = sc]
  /\ UNCHANGED <<regVars, statVars, lifeVars, passVars, histVars,
                 traceVars, readVars>>

\* The waiting caller gets the lock, edits the registry and returns.
AddLocked(c, p, ts) ==
  /\ cpc[c] = "lock"
  /\ Add(ctarget[c], p, ts)
  /\ cpc' = [cpc EXCEPT ![c] = "idle"]
  /\ UNCHANGED <<ctarget, lastcall>>

RemoveLocked(c, t) ==
  /\ cpc[c] = "lock"
  /\ Remove(ctarget[c], t)
  /\ cpc' = [cpc EXCEPT ![c] = "idle"]
  /\ UNCHANGED <<ctarget, lastcall>>

\* Tasks(): reads the registry under the lock and returns.
TasksLocked(c) ==
  /\ cpc[c] = "lock"
  /\ Unlocked(ctarget[c])
  /\ cpc' = [cpc EXCEPT ![c] = "idle"]
  /\ UNCHANGED <<regVars, statVars, lifeVars, passVars, ctarget, histVars,
                 traceVars, readVars>>

\* The calls that a caller waiting for the task lock may be making, with
\* tasks of T.
Granted(c, T) ==
  \/ \E p \in Periods, ts \in AddArgs(T) : AddLocked(c, p, ts)
  \/ \E t \in T : RemoveLocked(c, t)
  \/ TasksLocked(c)

\* ------------------------------------------------------ specifications
\* The registry and the dispatch pass of one scheduler that is never
\* started: callers add tasks of T with a period > 0, remove them and call
\* tick() directly.
DispatchOver(T) ==
  \/ \E p \in Periods, ts \in AddArgs(T) :
       Add("s", p, ts) /\ UNCHANGED <<lastcall, clientVars>>
  \/ \E t \in T : Remove("s", t) /\ UNCHANGED <<lastcall, clientVars>>
  \/ TickCall("s")
  \/ tick("s")

\* With the tasks of the tests, whose Run never fails.
NextDispatch == DispatchOver({"A", "B"})
SpecDispatch == Init /\ [][NextDispatch]_vars

\* With the same tasks, the runs of every entry recorded.
InitShift == InitRecording(EmptyReg, GapsOn(EmptyReg))
SpecShift == InitShift /\ [][NextDispatch]_vars

\* With a task whose Run may fail.
NextFailure == DispatchOver({"A", "F"})
SpecFailure == Init /\ [][NextFailure]_vars

\* The registry alone: calls of Add and Remove, each recorded in lastcall.
NextRegistry ==
  \/ \E p \in AddPeriods, ts \in AddArgs(Task) :
       /\ Add("s", p, ts)
       /\ lastcall' = [op |-> "Add", period |-> p, args |-> ts,
                       pre |-> tasks["s"]]
       /\ UNCHANGED clientVars
  \/ \E t \in Task :
       /\ Remove("s", t)
       /\ lastcall' = [op |-> "Remove", t |-> t, pre |-> tasks["s"]]
       /\ UNCHANGED clientVars

SpecRegistry == Init /\ [][NextRegistry]_vars

\* The life cycle: the tasks are registered before anything is started;
\* the callers start and stop the schedulers and copy s with s.New() once
\* it has been stopped (README: "Create a New one reusing the existing
\* tasked from the stopped one"); the tickers fire and the goroutines
\* dispatch.
RegOf(b1, b2) ==
  [p \in AddPeriods |-> IF p = 1 THEN b1 ELSE IF p = 2 THEN b2 ELSE <<>>]
LifeRegs == {ScenarioReg, RegOf(<<"F", "A">>, <<"B">>)}
InitLife == \E reg \in LifeRegs : InitWith(reg)

Next ==
  \/ \E c \in Client, sc \in Sched, d \in Durations : Start(c, sc, d)
  \/ \E c \in Client, sc \in Sched : StopCall(c, sc)
  \/ \E c \in Client : StopWait(c)
  \/ \E c \in Client : ticker["s"] = "stopped" /\ SchedulerNew(c, "s", "ss")
  \/ \E sc \in Sched :
       \/ TickerFire(sc)
       \/ loopRecv(sc)
       \/ loopSelect(sc)
       \/ loopReturn(sc)
       \/ tick(sc)

Spec == InitLife /\ [][Next]_vars

\* A running scheduler and its copy: c1 starts s, whose task F may fail;
\* c2 takes s.New() at any moment, before or after Start, and edits both
\* registries; the copy is never started and is ticked by direct calls.
CopyRegs == {RegOf(<<"F", "A">>, <<"B">>)}
CopyTasks == {"A"}
InitCopy == \E reg \in CopyRegs : InitWith(reg)

NextCopy ==
  \/ \E d \in Durations : Start("c1", "s", d)
  \/ SchedulerNew("c2", "s", "ss")
  \/ \E sc \in Sched, p \in Periods, t \in CopyTasks :
       Add(sc, p, <<t>>) /\ UNCHANGED <<lastcall, clientVars>>
  \/ \E sc \in Sched, t \in CopyTasks :
       Remove(sc, t) /\ UNCHANGED <<lastcall, clientVars>>
  \/ TickerFire("s")
  \/ loopRecv("s")
  \/ ticks["s"] < CopyTicks /\ loopSelect("s")
  \/ tick("s")
  \/ ticks["ss"] < CopyTicks /\ TickCall("ss")
  \/ tick("ss")

SpecCopy == InitCopy /\ [][NextCopy]_vars

\* A started scheduler whose tasks and hooks call it back: the Run of
\* every task makes the call of CallOf, the hooks call Add, Remove, Tasks
\* and New; c1 starts the scheduler and stops it.
HookTasks == {"B"}
NextReentrant ==
  \/ \E d \in Durations : Start("c1", "s", d)
  \/ ticker["s"] = "on" /\ StopCall("c1", "s")
  \/ StopWait("c1")
  \/ TickerFire("s")
  \/ loopRecv("s")
  \/ loopSelect("s")
  \/ loopReturn("s")
  \/ tickBefore("s")
  \/ tickLock("s")
  \/ tickRange("s")
  \/ tickRunCalling("s")
  \/ tickAfter("s")
  \/ tickStats("s")
  \/ tickCount("s")
  \/ HookCall("s", HookTasks)

SpecReentrant == InitLife /\ [][NextReentrant]_vars

\* A started scheduler that dispatches while another goroutine calls
\* Load(), as ps does in the tests.
NextStats ==
  \/ \E d \in Durations : Start("c1", "s", d)
  \/ TickerFire("s")
  \/ loopRecv("s")
  \/ loopSelect("s")
  \/ tick("s")
  \/ Load("c2", "s")

SpecStats == InitLife /\ [][NextStats]_vars

\* A TaskTracer on its own: Run is called with any duration and result,
\* Reset at any moment.
NextTracer ==
  \/ \E dur \in TraceDurs, err \in BOOLEAN : TaskTracerRunStats(dur, err)
  \/ Reset

SpecTracer == Init /\ [][NextTracer]_vars

\* The Scheduler type with Close, driven by one goroutine that calls
\* Start, Stop and Close in any order on a scheduler that has a ticker
\* (Stop and Close) or not (Start), while the ticker fires and the
\* goroutine of the scheduler dispatches.
NextV1 ==
  \/ \E d \in Durations : SchedulerStart("c1", "s", d)
  \/ ticker["s"] # "nil" /\ SchedulerStop("c1", "s")
  \/ ticker["s"] # "nil" /\ SchedulerClose("c1", "s")
  \/ CloseStop("c1")
  \/ CloseWait("c1")
  \/ TickerFire("s")
  \/ loopRecv("s")
  \/ loopSelect("s")
  \/ loopReturn("s")
  \/ SchedulerTick("s")
  \/ tickRange("s")
  \/ tickRun("s")
  \/ SchedulerAfter("s")

SpecV1 == InitLife /\ [][NextV1]_vars

\* A scheduler under load: c1 starts s and stops it once, c2 edits the
\* registry while s runs, the ticker fires whether or not a pass is in
\* progress.  Every step of the goroutine and of the ticker is taken in
\* the end (each Run terminates); a caller waiting in Lock() gets the
\* lock in the end although the passes take it again and again (the
\* starvation mode of sync.Mutex).
OverrunTasks == {"A"}
NextOverrun ==
  \/ \E d \in Durations : Start("c1", "s", d)
  \/ ticker["s"] = "on" /\ StopCall("c1", "s")
  \/ StopWait("c1")
  \/ ticker["s"] = "on" /\ Request("c2", "s")
  \/ Granted("c2", OverrunTasks)
  \/ TickerFire("s")
  \/ loopRecv("s")
  \/ loopSelect("s")
  \/ loopReturn("s")
  \/ tick("s")

FairOverrun ==
  /\ WF_vars(TickerFire("s"))
  /\ WF_vars(loopRecv("s"))
  /\ WF_vars(loopSelect("s"))
  /\ WF_vars(loopReturn("s"))
  /\ WF_vars(tick("s"))
  /\ WF_vars(StopWait("c1"))
  /\ SF_vars(Granted("c2", OverrunTasks))

InitOverrun == InitWith(ScenarioReg)

SpecOverrun == InitOverrun /\ [][NextOverrun]_vars /\ FairOverrun

\* ---------------------------------------------------------- properties
CeilDiv(n, p) == (n + p - 1) \div p

\* The pass of scheduler sc has run all its tasks and no Run failed.
PassDone(sc) == gpc[sc] \in {"after", "stats", "count"} /\ ~passfail[sc]

\* The Runs of the pass in progress that belong to bucket p, in order, each
\* as <<index, task>>.
RunsOf(sc, p) ==
  LET sel(e) == e.p = p
      r == SelectSeq(runlog[sc], sel)
  IN [x \in 1..Len(r) |-> <<r[x].i, r[x].task>>]

\* The indices due in tick t for a bucket of period p holding seq, and the
\* Runs the dispatch rule asks for: the due entries by increasing index.
Due(seq, p, t) == {i \in 0..(Len(seq) - 1) : i % p = t % p}
Expected(seq, p, t) ==
  LET due == Due(seq, p, t) IN
  [x \in 1..Cardinality(due) |->
     LET i == CHOOSE d \in due : Cardinality({e \in due : e < d}) = x - 1
     IN <<i, seq[i + 1]>>]

\* The distances between two runs of an entry of a bucket of period p
\* that has lost one entry before it in between.
ShiftGaps(p) == IF p = 1 THEN {1} ELSE {p - 1, 2 * p - 1}
\* The records of the entries of bucket p of s that have run twice.
RunTwice(p) ==
  {r \in {gaps["s"].b[p][x] : x \in 1..Len(gaps["s"].b[p])} : r.gap > 0}

\* The p-tick windows (sets of positions) inside a record w of hist.
Windows(w, p) == {a..(a + p - 1) : a \in 1..(Len(w) - p + 1)}
RunsIn(w, win) == Cardinality({a \in win : w[a]})

\* C1: when a tick is processed and no task fails, every bucket of period p
\* has run exactly its entries at the indices i with i mod p = t mod p, once
\* each, by increasing index.  With A at period 1 and B at period 2 since
\* the scheduler is fresh, after t ticks A has run t times and B in the
\* even ticks: 4 times and in ticks 0 and 2 after ticks 0..3.
C1_DispatchRule ==
  \A sc \in Sched :
    /\ PassDone(sc) =>
         \A p \in Periods : RunsOf(sc, p) = Expected(snap[sc][p], p, ticks[sc])
    /\ (scen[sc].on /\ gpc[sc] \in {"none", "before", "lock"}) =>
         /\ scen[sc].a = ticks[sc]
         /\ scen[sc].b = {t \in 0..(ticks[sc] - 1) : t % 2 = 0}

\* Ticks 0..3 of the scenario are processed: A ran 4 times, B in ticks 0, 2.
C1_Witness ==
  /\ scen["s"].on /\ ticks["s"] = 4 /\ gpc["s"] = "none"
  /\ tasks["s"] = ScenarioReg
  /\ scen["s"].a = 4 /\ scen["s"].b = {0, 2}

\* C2: while an entry of a bucket of period p stays at its index and no
\* task fails (entries may be appended), every p consecutive ticks hold a
\* run of it, and two of its runs are never less or more than p ticks
\* apart.
C2_OncePerPeriod ==
  \A sc \in Sched : \A p \in Periods : \A x \in 1..Len(hist[sc][p]) :
    LET w == hist[sc][p][x] IN
    /\ \A win \in Windows(w, p) : \E a \in win : w[a]
    /\ \A a, b \in 1..Len(w) : (a < b /\ w[a] /\ w[b]) => b - a >= p
    /\ Len(w) = p + 1 => (w[1] <=> w[p + 1])

\* An entry of a bucket of period 2 was run, skipped, run again, while an
\* entry was appended to its bucket in between.
C2_Witness ==
  /\ Len(hist["s"][2]) >= 2
  /\ hist["s"][2][1] = <<TRUE, FALSE, TRUE>>
  /\ Len(hist["s"][2][2]) = 1

\* C3: in a tick with no failure a bucket of period p holding n entries has
\* floor(n/p) or ceil(n/p) of them run; when n <= p no two of its entries
\* run in the same tick.
C3_LoadBalance ==
  \A sc \in Sched : \A p \in Periods :
    /\ PassDone(sc) =>
         LET n == Len(snap[sc][p])
             c == Len(RunsOf(sc, p))
         IN /\ c \in {n \div p, CeilDiv(n, p)}
            /\ n <= p => c <= 1
    /\ Len(tasks[sc][p]) <= p =>
         \A x, y \in 1..Len(hist[sc][p]) :
           LET wx == hist[sc][p][x]
               wy == hist[sc][p][y]
           IN x # y =>
                \A k \in 0..(Len(wx) - 1) :
                  k < Len(wy) => ~(wx[Len(wx) - k] /\ wy[Len(wy) - k])

\* A pass has run 2 of the 3 entries of the bucket of period 2.
C3_Witness ==
  /\ PassDone("s")
  /\ Len(snap["s"][2]) = 3
  /\ Len(RunsOf("s", 2)) = 2

\* C4 as stated: over p consecutive ticks in which the bucket of period p
\* holds the same n entries, each of them runs ceil(n/p) or floor(n/p)
\* times.
C4_AsStated ==
  \A sc \in Sched : \A p \in Periods :
    LET n == Len(tasks[sc][p]) IN
    (\A x \in 1..n : Len(hist[sc][p][x]) >= p) =>
      \A x \in 1..n : \A win \in Windows(hist[sc][p][x], p) :
        RunsIn(hist[sc][p][x], win) \in {n \div p, CeilDiv(n, p)}

\* C4 (amended): over any p consecutive ticks, each entry of a bucket of
\* period p runs exactly once, whatever the size n of the bucket.
C4_ExactlyOnce ==
  \A sc \in Sched : \A p \in Periods : \A x \in 1..Len(hist[sc][p]) :
    \A win \in Windows(hist[sc][p][x], p) : RunsIn(hist[sc][p][x], win) = 1

\* The bucket of period 1 holds 3 entries, each run in the last two ticks.
C4_Witness ==
  /\ Len(tasks["s"][1]) = 3
  /\ \A x \in 1..3 : hist["s"][1][x] = <<TRUE, TRUE>>


\* C5: a task whose Run returns an error while a tick is processed is not
\* invoked on any later tick unless it is added again, whether or not it is
\* registered through a TaskTracer: no Run of a dispatch pass is the Run of
\* a task that failed in an earlier pass and was not added since.
C5_NoRunAfterFailure ==
  \A sc \in Sched :
    \A k \in 1..Len(runlog[sc]) : ~runlog[sc][k].late

\* The positions <<p, x>> of the entries of a registry.
Entries(reg) ==
  UNION {{<<p, x>> : x \in 1..Len(reg[p])} : p \in DOMAIN reg}
Holds(seq, t) == \E x \in 1..Len(seq) : seq[x] = t

\* C6: Remove(t) deletes, in every bucket that holds t, exactly the first
\* entry equal to t and nothing else: the other entries keep their order,
\* later duplicates of t stay, a bucket without t is unchanged, and the
\* count of entries drops by the number of buckets that held t.
C6_RemoveFirstMatch ==
  lastcall.op = "Remove" =>
    LET t == lastcall.t
        pre == lastcall.pre
        post == tasks["s"]
    IN /\ \A q \in DOMAIN pre :
            IF Holds(pre[q], t)
            THEN \E j \in 1..Len(pre[q]) :
                   /\ pre[q][j] = t
                   /\ \A x \in 1..(j - 1) : pre[q][x] # t
                   /\ Len(post[q]) = Len(pre[q]) - 1
                   /\ \A x \in 1..Len(post[q]) :
                        post[q][x] = IF x < j THEN pre[q][x] ELSE pre[q][x + 1]
            ELSE post[q] = pre[q]
       /\ Cardinality(Entries(post)) =
            Cardinality(Entries(pre))
              - Cardinality({q \in DOMAIN pre : Holds(pre[q], t)})

C6_Witness ==
  /\ lastcall.op = "Remove"
  /\ lastcall.t = "A"
  /\ lastcall.pre[2] = <<"A", "B", "A">>
  /\ tasks["s"][2] = <<"B", "A">>

\* C7: Tasks() is the number of entries over all buckets, duplicates
\* counted; Add(p, t1..tk) with p > 0 appends the k tasks at the end of
\* bucket p in call order, leaves the existing entries at their indices
\* and every other bucket as it was, and raises the count by k; Add with
\* p <= 0 leaves the registry unchanged, so that no bucket of a period
\* <= 0 ever holds an entry.
C7_AddAppends ==
  LET post == tasks["s"] IN
  /\ Tasks("s") = Cardinality(Entries(post))
  /\ \A q \in DOMAIN post : q <= 0 => post[q] = <<>>
  /\ lastcall.op = "Add" =>
       LET p == lastcall.period
           ts == lastcall.args
           pre == lastcall.pre
       IN IF p > 0
          THEN /\ Len(post[p]) = Len(pre[p]) + Len(ts)
               /\ \A x \in 1..Len(pre[p]) : post[p][x] = pre[p][x]
               /\ \A x \in 1..Len(ts) : post[p][Len(pre[p]) + x] = ts[x]
               /\ \A q \in DOMAIN pre : q # p => post[q] = pre[q]
               /\ Tasks("s") = Cardinality(Entries(pre)) + Len(ts)
          ELSE post = pre

C7_Witness ==
  /\ lastcall.op = "Add"
  /\ lastcall.period = 2
  /\ lastcall.args = <<"B", "A">>
  /\ lastcall.pre[2] = <<"A">>
  /\ tasks["s"][2] = <<"A", "B", "A">>
  /\ Tasks("s") = 3

\* C8: Stop on a running scheduler returns only after the dispatch pass
\* in flight is complete and the goroutine has exited: once Stop has
\* returned, the goroutine is gone, the task lock is free and no Run or
\* hook of the scheduler is executing; and the caller gets past the send
\* on the done channel only when the goroutine is outside tick().
C8_StopWaitsForPass ==
  /\ \A sc \in Sched :
       ticker[sc] = "stopped" =>
         gpc[sc] = "exited" /\ lockt[sc] = "free" /\ wg[sc] = 0
  /\ \A c \in Client :
       cpc[c] = "wait" => gpc[ctarget[c]] \in {"return", "exited"}

C8_Witness ==
  \E c \in Client :
    /\ cpc[c] = "idle"
    /\ ctarget[c] = "s"
    /\ sawpass[c]
    /\ ticker["s"] = "stopped"
    /\ ticks["s"] >= 1

\* C9: Start on a stopped scheduler panics and launches no dispatch (the
\* scheduler stays stopped, its goroutine gone, its tick count as it was);
\* Stop on a scheduler that was never started panics; the scheduler that
\* s.New() makes from a stopped one is idle (no ticker, no goroutine, tick
\* count 0) with the same buckets, a Start on it launches the goroutine,
\* and its first dispatch pass works on the buckets of the stopped one.
C9_LifecyclePanics ==
  /\ [](\A sc \in Sched :
          (/\ alive[sc] /\ sc # "s"
           /\ ticks[sc] = 0
           /\ gpc[sc] \in {"range", "loop", "after", "stats", "count"})
          => snap[sc] = tasks["s"])
  /\ [][\A sc \in Sched :
          /\ ticker[sc] = "stopped" =>
               /\ ticker'[sc] = "stopped"
               /\ gpc'[sc] = "exited"
               /\ wg'[sc] = 0
               /\ ticks'[sc] = ticks[sc]
               /\ \A c \in Client, d \in Durations :
                    Start(c, sc, d) => cpc'[c] = "panicStart"
          /\ ticker[sc] = "nil" =>
               \A c \in Client :
                 StopCall(c, sc) =>
                   cpc'[c] = "panicStop" /\ ticker'[sc] = "nil"
          /\ \A c \in Client, tgt \in Sched :
               SchedulerNew(c, sc, tgt) =>
                 /\ ticker[sc] = "stopped"
                 /\ ticker'[tgt] = "nil"
                 /\ gpc'[tgt] = "none"
                 /\ ticks'[tgt] = 0
                 /\ tasks'[tgt] = tasks[sc]
          /\ \A c \in Client, d \in Durations :
               (Start(c, sc, d) /\ ticker[sc] = "nil") =>
                 /\ cpc'[c] = "idle"
                 /\ ticker'[sc] = "on"
                 /\ gpc'[sc] = "recv"]_vars

C9_Witness ==
  /\ ticker["s"] = "stopped"
  /\ ticker["ss"] = "on"
  /\ ticks["ss"] >= 1
  /\ tasks["ss"] = tasks["s"]
  /\ cpc["c1"] = "panicStart"
  /\ cpc["c2"] = "panicStop"

\* C10: a Stop on a scheduler that has been stopped, or concurrent with
\* another Stop, panics and never blocks its caller forever: no caller is
\* ever parked in the send on the done channel of a scheduler whose
\* goroutine has received a stop request or has exited.
C10_StopAgainPanics ==
  \A c \in Client :
    cpc[c] = "send" => gpc[ctarget[c]] \notin {"return", "exited"}

\* C11: a started scheduler stays live whatever the ticker does while a
\* pass is in progress: as long as it is not stopped and below the tick
\* bound, one more pass is completed; a caller waiting for the task lock
\* in Add, Remove or Tasks returns; a caller of Stop returns.
C11_LiveUnderOverrun ==
  /\ \A n \in 0..(MaxTicks - 1) :
       (ticker["s"] = "on" /\ ticks["s"] = n)
         ~> (ticks["s"] > n \/ ticker["s"] = "stopped")
  /\ (cpc["c2"] = "lock") ~> (cpc["c2"] = "idle")
  /\ (cpc["c1"] = "send") ~> (cpc["c1"] = "idle" /\ ticker["s"] = "stopped")

\* A saturated scheduler: a tick is pending while a pass is in progress,
\* an edit waits for the lock and Stop waits in the send.
C11_Witness ==
  /\ gpc["s"] \in {"range", "loop"}
  /\ tickC["s"] = 1
  /\ ticks["s"] >= 2
  /\ cpc["c2"] = "lock"
  /\ cpc["c1"] = "send"

\* C12: a dispatch pass holds the task lock from before its first Run
\* until after its last one, and no Add, Remove or Tasks of another
\* goroutine lands in between: during the pass the registry is the one
\* the pass started with, and the entries the pass has run when it ends
\* are the due entries of that registry; an edit requested during the
\* pass is served after it.
C12_EditsExcludePass ==
  /\ (lockt["s"] = "tick") <=> (gpc["s"] \in {"range", "loop"})
  /\ gpc["s"] \in {"range", "loop"} => tasks["s"] = snap["s"]
  /\ \A p \in Periods :
       gpc["s"] \in {"after", "stats", "count"} =>
         RunsOf("s", p) = Expected(snap["s"][p], p, ticks["s"])

\* An edit waits for the lock while a pass that started from an edited
\* registry is running its tasks.
C12_Witness ==
  /\ gpc["s"] = "loop"
  /\ runlog["s"] # <<>>
  /\ cpc["c2"] = "lock"
  /\ snap["s"] # ScenarioReg
  /\ ticks["s"] >= 1

\* C13: dispatch is single-flight.  One goroutine at most serves a
\* scheduler, and a pass is in progress only in that goroutine; the ticker
\* is never blocked by a pass: it can always fire, at most one tick is
\* held pending, and a tick that arrives during a pass changes nothing
\* but the pending tick, which the goroutine receives after the pass.
C13_SingleFlight ==
  /\ [](/\ wg["s"] \in {0, 1}
        /\ gpc["s"] \in (InPass \cup {"recv", "select", "return"})
             <=> wg["s"] = 1
        /\ tickC["s"] \in {0, 1}
        /\ ticker["s"] = "on" => ENABLED TickerFire("s")
        /\ gpc["s"] \in InPass => cpc["c1"] # "wait")
  /\ [][(gpc["s"] \in InPass /\ tickC'["s"] > tickC["s"]) =>
          /\ tickC'["s"] = 1
          /\ gpc' = gpc /\ runlog' = runlog /\ tasks' = tasks
          /\ ticks' = ticks /\ cp' = cp /\ ci' = ci]_vars
  /\ [][(tickC'["s"] < tickC["s"]) =>
          (gpc["s"] = "recv" /\ gpc'["s"] = "select")]_vars

\* A pass runs tasks with a tick pending, after an earlier pass.
C13_Witness ==
  /\ gpc["s"] = "loop"
  /\ runlog["s"] # <<>>
  /\ tickC["s"] = 1
  /\ ticks["s"] >= 1
  /\ cpc["c1"] = "idle"

\* C14: s.New() yields a scheduler that was never started, with tick
\* count and load 0, whose buckets hold the entries of s in the same order
\* at the time of the call, taken while no pass of s holds the lock; s is
\* left as it was.  Afterwards the registries are independent: a step that
\* changes one of them (Add, Remove, removal on failure) leaves the other.
C14_NewCopies ==
  /\ [][(~alive["ss"] /\ alive'["ss"]) =>
          /\ tasks'["ss"] = tasks["s"]
          /\ tasks'["s"] = tasks["s"]
          /\ ticks'["ss"] = 0 /\ load'["ss"] = 0
          /\ ticker'["ss"] = "nil" /\ gpc'["ss"] = "none"
          /\ gpc["s"] \notin {"range", "loop"}
          /\ gpc'["s"] = gpc["s"] /\ ticks'["s"] = ticks["s"]]_vars
  /\ [][alive["ss"] =>
          (tasks'["s"] = tasks["s"] \/ tasks'["ss"] = tasks["ss"])]_vars
  /\ [](~alive["ss"] => tasks["ss"] = EmptyReg)

\* The copy was taken from a running s; since then s lost F to a failure
\* and the copy still holds it, and the copy lost A, which s still holds.
C14_Witness ==
  /\ alive["ss"]
  /\ ticker["s"] = "on"
  /\ failed["s"]["F"] # "no"
  /\ tasks["s"][1] = <<"A">>
  /\ tasks["ss"][1] = <<"F">>
  /\ tasks["ss"][2] = <<"B">>

C16_CloseReturns ==
  /\ cpc["c1"] \in {"send", "wait", "join"} => ENABLED NextV1
  /\ (ticker["s"] = "nil" /\ gpc["s"] # "none") =>
       (gpc["s"] = "exited" /\ wg["s"] = 0)

\* The sum, the largest and the smallest of a sequence of durations.
RECURSIVE SumOf(_)
SumOf(w) == IF w = <<>> THEN 0 ELSE w[1] + SumOf(Tail(w))
Largest(w) == CHOOSE x \in {w[i] : i \in DOMAIN w} :
                \A y \in {w[i] : i \in DOMAIN w} : y <= x
Smallest(w) == CHOOSE x \in {w[i] : i \in DOMAIN w} :
                 \A y \in {w[i] : i \in DOMAIN w} : x <= y

\* C17: after k calls of Run since Trace() or the last Reset(), Count is k
\* and CumulativeDuration the sum of the k durations; for k >= 1 Max and
\* Min are the largest and the smallest of them and Average is the sum
\* divided by k, between Min and Max; for k = 0 Count, Average, Max and
\* StandardDeviation are 0 and Min is the sentinel MaxInt64.
C17_TracerStats ==
  LET k == Len(durs) IN
  /\ Count = k
  /\ CumulativeDuration = SumOf(durs)
  /\ k >= 1 =>
       /\ MaxDuration = Largest(durs)
       /\ MinDuration = Smallest(durs)
       /\ AverageDuration = SumOf(durs) \div k
       /\ MinDuration <= AverageDuration
       /\ AverageDuration <= MaxDuration
  /\ k = 0 =>
       /\ AverageDuration = 0
       /\ MaxDuration = 0
       /\ StandardDeviationDuration = 0
       /\ MinDuration = MaxInt64

\* Three runs with a shorter duration after a longer one, the average
\* strictly between the smallest and the largest.
C17_Witness ==
  /\ Len(durs) = 3
  /\ durs[1] > durs[2]
  /\ durs[3] < durs[1]
  /\ MinDuration < AverageDuration
  /\ AverageDuration < MaxDuration

\* The Runs r of a pass, or the Runs expected of it, without those of the
\* tasks that failed in the pass.
FailedNow(sc) ==
  {runlog[sc][k].task : k \in {j \in 1..Len(runlog[sc]) : runlog[sc][j].err}}
OthersOf(sc, r) ==
  LET ok(e) == e[2] \notin FailedNow(sc) IN SelectSeq(r, ok)

\* C18: a failure leaves the rest of the tick as it was.  When a pass in
\* which a Run failed has run all its tasks, the entries it has invoked,
\* the failed tasks apart, are for every bucket the entries due in the
\* bucket as it stood at the start of the pass, each once, by increasing
\* index.
C18_RestOfTickUnaffected ==
  \A p \in Periods :
    (gpc["s"] \in {"after", "stats", "count"} /\ passfail["s"]) =>
      OthersOf("s", RunsOf("s", p)) =
        OthersOf("s", Expected(snap["s"][p], p, ticks["s"]))

\* The step is a Run of the pass of s that returned an error; the Run.
FailStep ==
  /\ Len(runlog'["s"]) = Len(runlog["s"]) + 1
  /\ runlog'["s"][Len(runlog'["s"])].err
FailedRun == runlog'["s"][Len(runlog'["s"])]

\* C19, as claimed: the failure of an entry of bucket p deletes that one
\* entry: bucket p loses one entry, every other bucket is unchanged, and
\* the count of entries drops by exactly one.
C19_AsStated ==
  [][FailStep =>
       /\ Len(tasks'["s"][FailedRun.p]) = Len(tasks["s"][FailedRun.p]) - 1
       /\ \A q \in Periods \ {FailedRun.p} : tasks'["s"][q] = tasks["s"][q]
       /\ Cardinality(Entries(tasks'["s"])) =
            Cardinality(Entries(tasks["s"])) - 1]_vars

\* C19, amended: the failure of an entry removes its task by value, at
\* once and in every bucket: each bucket that holds an entry equal to the
\* failed task loses the first such entry and keeps the others in order, a
\* bucket that holds none is unchanged, and the count of entries drops by
\* the number of buckets that held the task.
C19_RemovalByValue ==
  [][FailStep =>
       LET t == FailedRun.task
           pre == tasks["s"]
           post == tasks'["s"]
       IN /\ \A q \in DOMAIN pre :
               IF Holds(pre[q], t)
               THEN \E j \in 1..Len(pre[q]) :
                      /\ pre[q][j] = t
                      /\ \A x \in 1..(j - 1) : pre[q][x] # t
                      /\ post[q] = [x \in 1..(Len(pre[q]) - 1) |->
                                      IF x < j THEN pre[q][x]
                                      ELSE pre[q][x + 1]]
               ELSE post[q] = pre[q]
          /\ Cardinality(Entries(post)) =
               Cardinality(Entries(pre))
                 - Cardinality({q \in DOMAIN pre : Holds(pre[q], t)})]_vars

\* The first Run of a pass failed with F held by both buckets: F has left
\* both, and two entries are gone.
C19_Witness ==
  /\ gpc["s"] \in {"range", "loop"}
  /\ Len(runlog["s"]) = 1
  /\ runlog["s"][1].err
  /\ Holds(snap["s"][1], "F") /\ Holds(snap["s"][2], "F")
  /\ ~Holds(tasks["s"][1], "F") /\ ~Holds(tasks["s"][2], "F")
  /\ Cardinality(Entries(tasks["s"])) = Cardinality(Entries(snap["s"])) - 2

C21_HooksAndCount ==
  /\ [](/\ hooks["s"].nb = ticks["s"] +
             (IF gpc["s"] \in InPass \ {"before"} THEN 1 ELSE 0)
        /\ hooks["s"].na = ticks["s"] +
             (IF gpc["s"] \in {"stats", "count"} THEN 1 ELSE 0)
        /\ gpc["s"] \in InPass \ {"before"} => hooks["s"].b = ticks["s"]
        /\ gpc["s"] \in {"stats", "count"} => hooks["s"].a = hooks["s"].b
        /\ runlog["s"] # <<>> =>
             gpc["s"] \in {"range", "loop", "after", "stats", "count"}
        /\ gpc["s"] \in InPass => wg["s"] = 1)
  /\ [][/\ ticks'["s"] # ticks["s"] =>
             /\ ticks'["s"] = ticks["s"] + 1
             /\ gpc["s"] = "count" /\ gpc'["s"] = "recv"
        /\ Len(runlog'["s"]) > Len(runlog["s"]) => gpc["s"] = "loop"
        /\ hooks'["s"].na # hooks["s"].na =>
             (gpc["s"] = "after" /\ todo["s"] = {})
        /\ hooks' # hooks =>
             /\ tasks' = tasks /\ ticks' = ticks /\ load' = load
             /\ runlog' = runlog /\ lockt' = lockt /\ ticker' = ticker]_vars

\* The third pass has called both hooks, which read Ticks() = 2, and has
\* run tasks; its increment is still to come.
C21_Witness ==
  /\ gpc["s"] = "count"
  /\ ticks["s"] = 2
  /\ hooks["s"] = [nb |-> 3, na |-> 3, b |-> 2, a |-> 2]
  /\ runlog["s"] # <<>>

\* C22, as claimed: a Run that calls Add, Remove, Tasks or New on the
\* scheduler that dispatches it never returns: no Run of a task that makes
\* such a call is ever completed.
C22_AsStated ==
  [][Len(runlog'["s"]) = Len(runlog["s"]) + 1 =>
       CallOf(runlog'["s"][Len(runlog'["s"])].task).op
         \notin {"Add", "Remove", "Tasks", "New"}]_vars

\* C22, amended: the pass holds the task lock while it runs tasks and not
\* while it runs hooks.  A hook's call of Add, Remove, Tasks or New finds
\* the lock free, and the registry changes only there; a Run whose call
\* reaches the lock (every call but an Add with a period <= 0) never
\* returns: the scheduler stays in that Run, its registry and tick count
\* stay as they are, and a caller of Stop stays in its send.
C22_ReentrantCalls ==
  /\ [](gpc["s"] \in {"before", "after"} => Unlocked("s"))
  /\ [][Len(runlog'["s"]) = Len(runlog["s"]) + 1 =>
          ~Locks(CallOf(runlog'["s"][Len(runlog'["s"])].task))]_vars
  /\ [][Blocked("s") =>
          /\ Blocked("s")'
          /\ ticks'["s"] = ticks["s"] /\ tasks'["s"] = tasks["s"]
          /\ runlog'["s"] = runlog["s"] /\ lockt'["s"] = "tick"
          /\ cpc["c1"] = "send" => cpc'["c1"] = "send"]_vars
  /\ [][tasks'["s"] # tasks["s"] =>
          (gpc["s"] \in {"before", "after"} /\ gpc' = gpc)]_vars

\* After a pass that a hook made possible by removing B, and a copy taken
\* by a hook, the goroutine is inside a Run that waits for the lock, after
\* a Run of A whose Add(0, A) returned, and Stop waits in its send.
C22_Witness ==
  /\ Blocked("s")
  /\ ticks["s"] >= 1
  /\ alive["ss"]
  /\ runlog["s"] # <<>>
  /\ cpc["c1"] = "send"

\* C23: a Remove made while no pass holds the lock moves every later entry
\* of the bucket down by one index and leaves the entries before it where
\* they are.  Two consecutive runs of an entry of a bucket of period p are
\* p ticks apart when Remove took no entry from before it in between, and
\* p-1 or 2p-1 ticks apart (1 tick when p = 1) when it took exactly one.
C23_RemoveShiftsPhase ==
  /\ [](\A p \in Periods : \A r \in RunTwice(p) :
          /\ r.of = 0 => r.gap = p
          /\ r.of = 1 => r.gap \in ShiftGaps(p)
          /\ r.of = 1 => r.gap <= 2 * p - 1)
  /\ [][\A p \in Periods :
          Len(tasks'["s"][p]) < Len(tasks["s"][p]) =>
            \E j \in 1..Len(tasks["s"][p]) :
              /\ Len(tasks'["s"][p]) = Len(tasks["s"][p]) - 1
              /\ \A x \in 1..Len(tasks'["s"][p]) :
                   tasks'["s"][p][x] = tasks["s"][p][IF x < j THEN x ELSE x + 1]
              /\ \A x \in 1..Len(tasks'["s"][p]) :
                   gaps'["s"].b[p][x].last =
                     gaps["s"].b[p][IF x < j THEN x ELSE x + 1].last]_vars

\* In a bucket of period 2 an entry has run 3 ticks after its last run and
\* another 1 tick after, each having lost one entry before it in between,
\* while an entry that lost none has run 2 ticks after its last run.
C23_Witness ==
  /\ \E r \in RunTwice(2) : r.of = 1 /\ r.gap = 3
  /\ \E r \in RunTwice(2) : r.of = 0 /\ r.gap = 2

====
